---- MODULE Spec2Model ----
(***************************************************************************)
(* Model of endpoint_validator.py: the change-set resolver, the endpoint   *)
(* extractor, the path validator and the reporter of main().               *)
(*                                                                         *)
(* Strings are sequences of one-character strings, so that startswith,     *)
(* endswith, rstrip and split are computed character by character.         *)
(***************************************************************************)
EXTENDS Integers, Sequences, FiniteSets, TLC

VARIABLES
    pc,              \* position of the process: idle / resolve / scan / validate / report / exited
    args,            \* parsed flags: changed_only, all_files, output_json
    git,             \* the revision-control environment of the run
    diff_names,      \* the names that differ between the two revisions, as git lists them
    fs,              \* the working tree: path -> [exists, readable, decls]
    files_to_check,  \* main(): resolved file list
    file_idx,        \* main(): index of the file the outer loop is at
    endpoints,       \* main(): endpoints of the current file not yet validated
    all_endpoints,   \* main(): every endpoint record so far
    violations,      \* main(): the records validate_endpoint rejected
    stdout,          \* what the run printed (empty sequence before the report)
    exit_status,     \* status passed to sys.exit (-1 while running)
    ref,             \* history: what the last --changed-only run printed, per --output-json
    match,           \* extractor step: one element of re.findall's result
    endpoint,        \* extractor / validator step: the endpoint string at hand
    valid            \* validator step: validate_endpoint's return value

mainVarsButPc == <<args, git, diff_names, fs, files_to_check, file_idx, endpoints,
                   all_endpoints, violations, stdout, exit_status, ref>>
vars == <<pc, args, git, diff_names, fs, files_to_check, file_idx, endpoints,
          all_endpoints, violations, stdout, exit_status, ref, match, endpoint, valid>>

\* ------------------------------------------------------------------ bounds

\* longest suffix appended to a stem when enumerating endpoint strings
MaxSuffix == 3
\* longest list of names the revision diff reports
MaxChanged == 2
\* most route declarations in one file
MaxDecls == 2
\* most capture groups of one regex match
MaxGroups == 3

\* ------------------------------------------------------- string primitives

\* str.startswith
StartsWith(s, p) == Len(p) <= Len(s) /\ SubSeq(s, 1, Len(p)) = p

\* str.endswith
EndsWith(s, p) == Len(p) <= Len(s) /\ SubSeq(s, Len(s) - Len(p) + 1, Len(s)) = p

\* str.rstrip(c): every trailing c removed
RECURSIVE RStrip(_, _)
RStrip(s, c) ==
    IF s # <<>> /\ s[Len(s)] = c THEN RStrip(SubSeq(s, 1, Len(s) - 1), c) ELSE s

\* str.split(c)[0]: the text before the first c, the whole string when there is none
SplitFirst(s, c) ==
    IF \E i \in 1..Len(s) : s[i] = c
    THEN LET i == CHOOSE k \in 1..Len(s) : s[k] = c /\ \A j \in 1..(k - 1) : s[j] # c
         IN  SubSeq(s, 1, i - 1)
    ELSE s

\* str.split(c): the pieces between occurrences of c
RECURSIVE Split(_, _)
Split(s, c) ==
    IF \E i \in 1..Len(s) : s[i] = c
    THEN LET i == CHOOSE k \in 1..Len(s) : s[k] = c /\ \A j \in 1..(k - 1) : s[j] # c
         IN  <<SubSeq(s, 1, i - 1)>> \o Split(SubSeq(s, i + 1, Len(s)), c)
    ELSE <<s>>

\* str.strip(): leading and trailing whitespace removed
Whitespace == {" ", "\n"}
RECURSIVE Strip(_)
Strip(s) ==
    IF s # <<>> /\ s[1] \in Whitespace THEN Strip(Tail(s))
    ELSE IF s # <<>> /\ s[Len(s)] \in Whitespace THEN Strip(SubSeq(s, 1, Len(s) - 1))
    ELSE s

\* sequences over S of length at most n
SeqsUpTo(S, n) == UNION {[1..k -> S] : k \in 0..n}

\* the elements of a sequence
Range(s) == {s[i] : i \in 1..Len(s)}

\* ------------------------------------------------------------ configuration

\* ALLOWED_PARENT_PATHS
API_V1 == <<"/", "a", "p", "i", "/", "v", "1">>
API_V2 == <<"/", "a", "p", "i", "/", "v", "2">>
API_V3 == <<"/", "a", "p", "i", "/", "v", "3">>
ALLOWED_PARENT_PATHS == <<API_V1, API_V2, API_V3>>

\* FILE_EXTENSIONS
FILE_EXTENSIONS ==
    << <<".", "g", "o">>, <<".", "j", "s">>, <<".", "t", "s">>, <<".", "p", "y">>,
       <<".", "j", "a", "v", "a">>, <<".", "r", "b">> >>

\* ENDPOINT_PATTERNS: per language tag, the number of capture groups of each rule, in order
ENDPOINT_PATTERNS(file_ext) ==
    CASE file_ext = <<"g", "o">> -> <<1, 2, 2, 1>>
      [] file_ext = <<"j", "s">> -> <<2, 2>>
      [] file_ext = <<"t", "s">> -> <<2, 2>>
      [] file_ext = <<"p", "y">> -> <<1, 2, 1>>
      [] file_ext = <<"j", "a", "v", "a">> -> <<1, 1>>
      [] file_ext = <<"r", "b">> -> <<1>>
      [] OTHER -> <<>>

\* ---------------------------------------------------------- validate_endpoint

ValidateNoSeparator(e) ==
    LET stripped == RStrip(e, "/")
    IN  \E i \in 1..Len(ALLOWED_PARENT_PATHS) :
            LET parent_path == RStrip(ALLOWED_PARENT_PATHS[i], "/")
            IN  StartsWith(stripped, parent_path) \/ stripped = parent_path

\* validate_endpoint(endpoint)
validate_endpoint(e) ==
    LET stripped == RStrip(e, "/")
    IN  \E i \in 1..Len(ALLOWED_PARENT_PATHS) :
            LET parent_path == RStrip(ALLOWED_PARENT_PATHS[i], "/")
            IN  StartsWith(stripped, parent_path \o <<"/">>) \/ stripped = parent_path

\* ------------------------------------------------- extract_endpoints_from_file

\* One route declaration in a file's text: the rules of the file's language whose regex
\* matches it, and the capture groups such a match yields.
\* re.findall(pattern, content): the matches of rule number i, in the order of the text;
\* a rule with one group yields the group, a rule with several yields the tuple.
FindAll(i, decls) ==
    LET hit == SelectSeq(decls, LAMBDA d : i \in d.rules)
    IN  [k \in 1..Len(hit) |-> hit[k].groups]

\* isinstance(match, tuple): a match of a rule with more than one group
IsTuple(m) == Len(m) > 1

SelectFirstGroup(m) == m[1]

\* the candidate chosen from one match
SelectCandidate(m) ==
    IF IsTuple(m)
    THEN IF Len(m) > 1 /\ StartsWith(m[2], <<"/">>) THEN m[2] ELSE m[1]
    ELSE m[1]

\* `if endpoint and endpoint.startswith('/')`
KeepCandidate(e) == e # <<>> /\ StartsWith(e, <<"/">>)

NormalizeQueryOnly(e) == SplitFirst(e, "?")

\* endpoint.split('?')[0].split('#')[0]
Normalize(e) == SplitFirst(SplitFirst(e, "?"), "#")

\* the inner loop over one rule's matches: the endpoints it appends
RECURSIVE EndpointsOfMatches(_)
EndpointsOfMatches(matches) ==
    IF matches = <<>> THEN <<>>
    ELSE LET e == SelectCandidate(Head(matches))
         IN  (IF KeepCandidate(e) THEN <<Normalize(e)>> ELSE <<>>)
             \o EndpointsOfMatches(Tail(matches))

\* the outer loop over the language's rules, from rule i on
RECURSIVE EndpointsOfRules(_, _, _)
EndpointsOfRules(i, patterns, decls) ==
    IF i > Len(patterns) THEN <<>>
    ELSE EndpointsOfMatches(FindAll(i, decls)) \o EndpointsOfRules(i + 1, patterns, decls)

\* the last component of a path
Name(path) ==
    IF \E i \in 1..Len(path) : path[i] = "/"
    THEN LET i == CHOOSE k \in 1..Len(path) :
                      path[k] = "/" /\ \A j \in (k + 1)..Len(path) : path[j] # "/"
         IN  SubSeq(path, i + 1, Len(path))
    ELSE path

\* Path(filepath).suffix[1:]: the text after the last dot of the name, unless the dot
\* leads or ends the name
FileExt(path) ==
    LET name == Name(path)
        dots == {i \in 2..(Len(name) - 1) : name[i] = "."}
    IN  IF dots = {} THEN <<>>
        ELSE LET i == CHOOSE k \in dots : \A j \in dots : j <= k
             IN  SubSeq(name, i + 1, Len(name))

ExtractIgnoringReadFailure(tree, filepath) ==
    EndpointsOfRules(1, ENDPOINT_PATTERNS(FileExt(filepath)), tree[filepath].decls)

\* extract_endpoints_from_file(filepath): open() or read() raising is caught before
\* anything was appended
extract_endpoints_from_file(tree, filepath) ==
    IF ~(tree[filepath].exists /\ tree[filepath].readable) THEN <<>>
    ELSE EndpointsOfRules(1, ENDPOINT_PATTERNS(FileExt(filepath)), tree[filepath].decls)

\* ----------------------------------------------------------- get_changed_files

\* any(f.endswith(ext) for ext in FILE_EXTENSIONS)
HasExtension(f) == \E i \in 1..Len(FILE_EXTENSIONS) : EndsWith(f, FILE_EXTENSIONS[i])

\* whether `git diff --name-only` can compute the revision set: in a pull request the
\* base ref is there when the fetch brought it or it was there already; on a push
\* HEAD~1 must be in the clone
DiffComputable(g) ==
    IF g.pull_request THEN g.fetch_ok \/ g.base_local ELSE g.base_local

\* the text os.popen(cmd).read() returns: one name per line, nothing when git fails
\* (its message goes to the diagnostic channel)
RECURSIVE Lines(_)
Lines(names) ==
    IF names = <<>> THEN <<>> ELSE Head(names) \o <<"\n">> \o Lines(Tail(names))

PopenRead(g, names) == IF DiffComputable(g) THEN Lines(names) ELSE <<>>

FilterNoExistsCheck(tree, files) ==
    SelectSeq(files, LAMBDA f : f # <<>> /\ HasExtension(f))

\* the list comprehension: names that exist and end in a recognized extension
FilterFiles(tree, files) ==
    SelectSeq(files, LAMBDA f : f # <<>> /\ f \in DOMAIN tree /\ tree[f].exists
                                 /\ HasExtension(f))

\* get_changed_files()
get_changed_files(g, names, tree) ==
    IF g.popen_raises THEN <<>>
    ELSE LET result == Strip(PopenRead(g, names))
         IN  IF result = <<>> THEN <<>>
             ELSE FilterFiles(tree, Split(result, "\n"))

\* ------------------------------------------------------------- environments

A_PY == <<"a", ".", "p", "y">>
B_GO == <<"b", ".", "g", "o">>
C_MD == <<"c", ".", "m", "d">>
D_PY == <<"d", ".", "p", "y">>
Paths == {A_PY, B_GO, C_MD, D_PY}

GET == <<"G", "E", "T">>
\* raw "/api/v1/u?x": a permitted route with a query string
V1_USERS_Q == API_V1 \o <<"/", "u", "?", "x">>
\* raw "/api/v10/u": collides with the prefix /api/v1 without being under it
V10_USERS == API_V1 \o <<"0", "/", "u">>
\* raw "/api/v4/h": under no permitted parent
V4_HEALTH == <<"/", "a", "p", "i", "/", "v", "4", "/", "h">>
\* raw "u/": a route that does not start with a slash
REL_USERS == <<"u", "/">>

\* @app.route('/api/v1/u?x'), @app.get('/api/v10/u'), path('u/')
PyDecls ==
    { [rules |-> {1}, groups |-> <<V1_USERS_Q>>],
      [rules |-> {2}, groups |-> <<GET, V10_USERS>>],
      [rules |-> {3}, groups |-> <<REL_USERS>>] }

\* e.GET("/api/v4/h"): matched by the Gin rule and by the Echo rule
GoDecl == [rules |-> {2, 3}, groups |-> <<GET, V4_HEALTH>>]

\* a path that is not in the tree
Absent == [exists |-> FALSE, readable |-> FALSE, decls |-> <<>>]
\* a file whose read or decoding raises (a directory, a byte that is not UTF-8), whatever
\* routes its bytes declare
Unreadable(decls) == [exists |-> TRUE, readable |-> FALSE, decls |-> decls]
\* a file that reads as text
Readable(decls) == [exists |-> TRUE, readable |-> TRUE, decls |-> decls]

PyFiles ==
    {Absent} \cup {Readable(d) : d \in SeqsUpTo(PyDecls, MaxDecls)}
             \cup {Unreadable(<<>>)} \cup {Unreadable(<<d>>) : d \in PyDecls}
GoFiles == {Absent, Unreadable(<<GoDecl>>), Readable(<<GoDecl>>)}

\* working trees: a.py and b.go vary, c.md is there, d.py was deleted
Trees ==
    { [p \in Paths |-> CASE p = A_PY -> a [] p = B_GO -> b
                         [] p = C_MD -> Readable(<<>>) [] OTHER -> Absent] :
        a \in PyFiles, b \in GoFiles }

\* GITHUB_EVENT_NAME == 'pull_request' or not, whether the fetch of the base branch
\* succeeds, whether the base revision is in the clone without it, and whether
\* os.popen raises; no fetch is attempted outside a pull request
GitEnvs ==
    { g \in [pull_request : BOOLEAN, fetch_ok : BOOLEAN, base_local : BOOLEAN,
             popen_raises : BOOLEAN] : ~g.pull_request => ~g.fetch_ok }

\* git lists each changed name once
ChangeSets ==
    { s \in SeqsUpTo(Paths, MaxChanged) : \A i, j \in 1..Len(s) : s[i] = s[j] => i = j }

BoolFlags == [changed_only : BOOLEAN, all_files : BOOLEAN, output_json : BOOLEAN]

NoFlags == [changed_only |-> FALSE, all_files |-> FALSE, output_json |-> FALSE]
NothingPrinted == [format |-> "none"]
NoRuns == [j \in BOOLEAN |-> <<>>]

\* -------------------------------------------------------------------- main()

NoChangedMessage == "No changed files to check"

\* lines 155-156: what the early exit of --changed-only prints
EarlyOutput(flags) ==
    IF flags.output_json
    THEN [format |-> "json", doc |-> [success |-> TRUE, message |-> NoChangedMessage]]
    ELSE [format |-> "text", doc |-> [message |-> NoChangedMessage]]

\* lines 184-211: the JSON document or the text report
ReportOutput(flags, files, all, viol) ==
    IF flags.output_json
    THEN [format |-> "json",
          doc |-> [success |-> Len(viol) = 0,
                   files_checked |-> Len(files),
                   total_endpoints |-> Len(all),
                   violations |-> viol,
                   allowed_paths |-> ALLOWED_PARENT_PATHS]]
    ELSE [format |-> "text",
          doc |-> [files_checked |-> Len(files),
                   endpoints_found |-> Len(all),
                   violations |-> Len(viol),
                   invalid |-> viol,
                   allowed_paths |-> IF viol # <<>> THEN ALLOWED_PARENT_PATHS ELSE <<>>,
                   all_valid |-> viol = <<>>]]

ExitCodeZero(viol) == 0

ExitCodeInverted(viol) == IF viol # <<>> THEN 0 ELSE 1

\* line 214: sys.exit(1 if violations else 0)
ExitCode(viol) == IF viol # <<>> THEN 1 ELSE 0

\* Path('.').rglob('*' + ext): the entries of the tree whose name ends in ext
RGlob(tree, ext) == {p \in DOMAIN tree : tree[p].exists /\ EndsWith(Name(p), ext)}

\* the orders in which a directory walk may list a set of entries
Orders(S) == {s \in [1..Cardinality(S) -> S] : Range(s) = S}

\* lines 159-162: one walk per extension, in the order of FILE_EXTENSIONS
RECURSIVE AllFilesFrom(_, _)
AllFilesFrom(tree, i) ==
    IF i > Len(FILE_EXTENSIONS) THEN {<<>>}
    ELSE {a \o b : a \in Orders(RGlob(tree, FILE_EXTENSIONS[i])),
                   b \in AllFilesFrom(tree, i + 1)}

\* the process starts: argparse reads the flags, nothing is resolved yet
Invoke ==
    /\ pc = "idle"
    /\ \E flags \in BoolFlags : args' = flags
    /\ pc' = "resolve"
    /\ files_to_check' = <<>>
    /\ file_idx' = 1
    /\ endpoints' = <<>>
    /\ all_endpoints' = <<>>
    /\ violations' = <<>>
    /\ stdout' = NothingPrinted
    /\ exit_status' = -1
    /\ UNCHANGED <<git, diff_names, fs, ref, match, endpoint, valid>>

\* lines 152-157: --changed-only, with its early exit
ResolveChangedOnly ==
    /\ pc = "resolve"
    /\ args.changed_only
    /\ LET files == get_changed_files(git, diff_names, fs)
       IN  /\ files_to_check' = files
           /\ IF files = <<>>
              THEN /\ stdout' = EarlyOutput(args)
                   /\ exit_status' = 0
                   /\ pc' = "exited"
              ELSE /\ pc' = "scan"
                   /\ UNCHANGED <<stdout, exit_status>>
    /\ UNCHANGED <<args, git, diff_names, fs, file_idx, endpoints, all_endpoints,
                   violations, ref, match, endpoint, valid>>

\* lines 158-162: --all-files
ResolveAllFiles ==
    /\ pc = "resolve"
    /\ ~args.changed_only
    /\ args.all_files
    /\ \E listing \in AllFilesFrom(fs, 1) : files_to_check' = listing
    /\ pc' = "scan"
    /\ UNCHANGED <<args, git, diff_names, fs, file_idx, endpoints, all_endpoints,
                   violations, stdout, exit_status, ref, match, endpoint, valid>>

\* lines 163-165: no file-selection flag
ResolveDefault ==
    /\ pc = "resolve"
    /\ ~args.changed_only
    /\ ~args.all_files
    /\ files_to_check' = get_changed_files(git, diff_names, fs)
    /\ pc' = "scan"
    /\ UNCHANGED <<args, git, diff_names, fs, file_idx, endpoints, all_endpoints,
                   violations, stdout, exit_status, ref, match, endpoint, valid>>

\* lines 171-172: the outer loop takes the next file and extracts its endpoints
ScanFile ==
    /\ pc = "scan"
    /\ file_idx <= Len(files_to_check)
    /\ LET found == extract_endpoints_from_file(fs, files_to_check[file_idx])
       IN  /\ endpoints' = found
           /\ IF found = <<>>
              THEN /\ file_idx' = file_idx + 1
                   /\ pc' = "scan"
              ELSE /\ file_idx' = file_idx
                   /\ pc' = "validate"
    /\ UNCHANGED <<args, git, diff_names, fs, files_to_check, all_endpoints,
                   violations, stdout, exit_status, ref, match, endpoint, valid>>

ViolationsAfterAppendAll(viol, info) == Append(viol, info)

\* lines 180-181: the record joins the violations when the validator rejects it
ViolationsAfter(viol, info) ==
    IF ~validate_endpoint(info.endpoint) THEN Append(viol, info) ELSE viol

\* lines 173-181: one iteration of the inner loop
ValidateEndpoint ==
    /\ pc = "validate"
    /\ endpoints # <<>>
    /\ LET endpoint_info == [file |-> files_to_check[file_idx], endpoint |-> Head(endpoints)]
       IN  /\ all_endpoints' = Append(all_endpoints, endpoint_info)
           /\ violations' = ViolationsAfter(violations, endpoint_info)
    /\ endpoints' = Tail(endpoints)
    /\ IF Tail(endpoints) = <<>>
       THEN /\ file_idx' = file_idx + 1
            /\ pc' = "scan"
       ELSE /\ file_idx' = file_idx
            /\ pc' = "validate"
    /\ UNCHANGED <<args, git, diff_names, fs, files_to_check, stdout, exit_status, ref,
                   match, endpoint, valid>>

\* lines 183-214: the report and the exit status
Report ==
    /\ pc = "scan"
    /\ file_idx > Len(files_to_check)
    /\ stdout' = ReportOutput(args, files_to_check, all_endpoints, violations)
    /\ exit_status' = ExitCode(violations)
    /\ pc' = "exited"
    /\ UNCHANGED <<args, git, diff_names, fs, files_to_check, file_idx, endpoints,
                   all_endpoints, violations, ref, match, endpoint, valid>>

\* one run of the tool in each environment
Init ==
    /\ pc = "idle"
    /\ args = NoFlags
    /\ git \in GitEnvs
    /\ diff_names \in ChangeSets
    /\ fs \in Trees
    /\ files_to_check = <<>>
    /\ file_idx = 1
    /\ endpoints = <<>>
    /\ all_endpoints = <<>>
    /\ violations = <<>>
    /\ stdout = NothingPrinted
    /\ exit_status = -1
    /\ ref = NoRuns
    /\ match = <<>>
    /\ endpoint = <<>>
    /\ valid = FALSE

Next ==
    \/ Invoke
    \/ ResolveChangedOnly
    \/ ResolveAllFiles
    \/ ResolveDefault
    \/ ScanFile
    \/ ValidateEndpoint
    \/ Report

Spec == Init /\ [][Next]_vars

\* --------------------------------------------------- what a run should produce

\* the endpoint records of a file list over a tree, file by file
RECURSIVE RecordsOf(_, _)
RecordsOf(files, tree) ==
    IF files = <<>> THEN <<>>
    ELSE LET found == extract_endpoints_from_file(tree, Head(files))
         IN  [k \in 1..Len(found) |-> [file |-> Head(files), endpoint |-> found[k]]]
             \o RecordsOf(Tail(files), tree)

\* the records the validator rejects, in order
Rejected(records) == SelectSeq(records, LAMBDA r : ~validate_endpoint(r.endpoint))

\* the run is past the resolution of its file list
Resolved == pc \in {"scan", "validate", "exited"}

\* the run ended through the report, not through the early exit
Reported == pc = "exited" /\ "files_checked" \in DOMAIN stdout.doc

\* the tree with every file that cannot be read replaced by a file without routes
EmptiedTree ==
    [p \in DOMAIN fs |-> IF fs[p].exists /\ ~fs[p].readable THEN Readable(<<>>) ELSE fs[p]]

\* ------------------------------------------------------------------- claims

\* C1: a run exits with status 1 when at least one violation was found and with
\* status 0 otherwise, also when there is nothing to check; a reported success flag is
\* true exactly when the status is 0.
C1_ExitStatus ==
    pc = "exited" =>
        /\ exit_status = (IF Rejected(RecordsOf(files_to_check, fs)) # <<>> THEN 1 ELSE 0)
        /\ "success" \in DOMAIN stdout.doc => (stdout.doc.success <=> exit_status = 0)

C1_Witness ==
    /\ pc = "exited"
    /\ exit_status = 1
    /\ "success" \in DOMAIN stdout.doc
    /\ ~stdout.doc.success
    /\ Len(all_endpoints) > Len(violations)

\* C3: throughout the scan loop and at its end, violations is the subsequence of
\* all_endpoints (same order, same file/endpoint pairs) of the records the validator
\* rejects; the reported success is true iff violations is empty.
C3_ViolationsPartition ==
    /\ violations = Rejected(all_endpoints)
    /\ (pc = "exited" /\ "success" \in DOMAIN stdout.doc)
           => (stdout.doc.success <=> violations = <<>>)

C3_Witness ==
    /\ pc = "validate"
    /\ Len(all_endpoints) >= 3
    /\ Len(violations) >= 2
    /\ Len(violations) < Len(all_endpoints)
    /\ validate_endpoint(all_endpoints[1].endpoint)
    /\ violations[1].file # violations[Len(violations)].file

\* C5: with --output-json the printed document exposes success, files_checked,
\* total_endpoints, violations and allowed_paths, with the counts of the resolved list
\* and of the records, in every file-selection mode and also when the list is empty.
C5_JsonDocument ==
    (pc = "exited" /\ args.output_json) =>
        /\ stdout.format = "json"
        /\ {"success", "files_checked", "total_endpoints", "violations", "allowed_paths"}
               \subseteq DOMAIN stdout.doc
        /\ stdout.doc.files_checked = Len(files_to_check)
        /\ stdout.doc.total_endpoints = Len(all_endpoints)
        /\ stdout.doc.allowed_paths = ALLOWED_PARENT_PATHS

\* the run listed the changed files rather than walking the tree
ListedChanges == Resolved /\ (args.changed_only \/ ~args.all_files)

\* C6, as claimed: a failed fetch of the base branch, a diff that cannot be computed or
\* an exception while listing each make get_changed_files return an empty list; a run
\* whose resolved list is empty reports success without violations and exits with 0.
C6_AnyFailureEmpties ==
    /\ (ListedChanges /\ ( \/ (git.pull_request /\ ~git.fetch_ok)
                           \/ ~DiffComputable(git)
                           \/ git.popen_raises ))
           => files_to_check = <<>>
    /\ (pc = "exited" /\ files_to_check = <<>>)
           => /\ exit_status = 0
              /\ violations = <<>>
              /\ "success" \in DOMAIN stdout.doc => stdout.doc.success

\* C6, amended: a diff that cannot be computed or an exception while listing make
\* get_changed_files return an empty list instead of raising; a failed fetch alone does
\* not (the diff still lists the changes when the base revision is in the clone); a run
\* whose resolved list is empty reports success without violations and exits with 0.
C6_ListingFailureEmpties ==
    /\ (ListedChanges /\ (~DiffComputable(git) \/ git.popen_raises))
           => files_to_check = <<>>
    /\ (ListedChanges /\ ~git.popen_raises /\ git.pull_request /\ ~git.fetch_ok
            /\ git.base_local)
           => files_to_check = FilterFiles(fs, diff_names)
    /\ (pc = "exited" /\ files_to_check = <<>>)
           => /\ exit_status = 0
              /\ violations = <<>>
              /\ "success" \in DOMAIN stdout.doc => stdout.doc.success

C6_Witness ==
    /\ pc = "exited"
    /\ ~args.changed_only
    /\ ~args.all_files
    /\ git.pull_request
    /\ ~git.fetch_ok
    /\ ~git.base_local
    /\ ~git.popen_raises
    /\ FilterFiles(fs, diff_names) # <<>>
    /\ files_to_check = <<>>
    /\ exit_status = 0

\* C7: a file whose read or decoding fails contributes no record and no violation,
\* the run goes on to the later files, the file still counts in files_checked, and the
\* run ends as it would had the file held no endpoints.
C7_ReadFailureSkipsFile ==
    /\ \A i \in 1..Len(all_endpoints) : fs[all_endpoints[i].file].readable
    /\ Reported =>
        /\ all_endpoints = RecordsOf(files_to_check, EmptiedTree)
        /\ stdout = ReportOutput(args, files_to_check, RecordsOf(files_to_check, EmptiedTree),
                                 Rejected(RecordsOf(files_to_check, EmptiedTree)))
        /\ exit_status = ExitCode(Rejected(RecordsOf(files_to_check, EmptiedTree)))
        /\ stdout.doc.files_checked = Len(files_to_check)

C7_Witness ==
    /\ Reported
    /\ Len(files_to_check) = 2
    /\ ~fs[files_to_check[1]].readable
    /\ fs[files_to_check[1]].decls # <<>>
    /\ fs[files_to_check[2]].readable
    /\ all_endpoints # <<>>
    /\ all_endpoints[1].file = files_to_check[2]
    /\ stdout.doc.files_checked = 2

\* C8: the list of files to scan holds no path twice, only paths that end in a
\* recognized extension and only paths that exist; a name of the diff that is gone from
\* the working tree is left out. In changed-only mode and in all-files mode.
C8_FileList ==
    Resolved =>
        /\ \A i, j \in 1..Len(files_to_check) :
               files_to_check[i] = files_to_check[j] => i = j
        /\ \A i \in 1..Len(files_to_check) :
               /\ HasExtension(files_to_check[i])
               /\ fs[files_to_check[i]].exists
        /\ ListedChanges =>
               \A i \in 1..Len(diff_names) :
                   ~fs[diff_names[i]].exists => diff_names[i] \notin Range(files_to_check)

C8_Witness ==
    /\ Resolved
    /\ args.changed_only
    /\ D_PY \in Range(diff_names)
    /\ HasExtension(D_PY)
    /\ files_to_check # <<>>
    /\ D_PY \notin Range(files_to_check)

\* ----------------------------------------------------- the tool run again

\* the run is over; what a --changed-only run printed and returned is kept, and the
\* tool may be invoked again in the same environment
Rerun ==
    /\ pc = "exited"
    /\ ref' = IF args.changed_only
              THEN [ref EXCEPT ![args.output_json] =
                        <<[stdout |-> stdout, exit_status |-> exit_status]>>]
              ELSE ref
    /\ pc' = "idle"
    /\ UNCHANGED <<args, git, diff_names, fs, files_to_check, file_idx, endpoints,
                   all_endpoints, violations, stdout, exit_status, match, endpoint,
                   valid>>

\* push builds over a tree without b.go
InitRerun ==
    /\ Init
    /\ ~git.pull_request
    /\ ~git.popen_raises
    /\ fs[B_GO] = Absent

NextRerun ==
    \/ Next
    \/ Rerun

SpecRerun == InitRerun /\ [][NextRerun]_vars

\* C4: a run without a file-selection flag prints and returns what a --changed-only
\* run prints and returns for the same change set, environment and --output-json, also
\* when the change set is empty.
C4_DefaultAsChangedOnly ==
    (pc = "exited" /\ ~args.changed_only /\ ~args.all_files
        /\ ref[args.output_json] # <<>>)
        => ref[args.output_json][1] = [stdout |-> stdout, exit_status |-> exit_status]

\* ------------------------------------------------- validate_endpoint, alone

Stems ==
    { <<>>, <<"/", "a", "p", "i">>, API_V1, API_V2, API_V3,
      <<"/", "a", "p", "i", "/", "v", "4">>, <<"/", "v", "1">> }
SuffixChars == {"/", "0", "u"}

\* the endpoint strings validate_endpoint is called with
EndpointStrings == {stem \o suffix : stem \in Stems, suffix \in SeqsUpTo(SuffixChars, MaxSuffix)}

\* values of the state of main() while a function is exercised alone
MainIdle ==
    /\ args = NoFlags
    /\ git = [pull_request |-> FALSE, fetch_ok |-> FALSE, base_local |-> TRUE,
              popen_raises |-> FALSE]
    /\ diff_names = <<>>
    /\ fs = [p \in Paths |-> Absent]
    /\ files_to_check = <<>>
    /\ file_idx = 1
    /\ endpoints = <<>>
    /\ all_endpoints = <<>>
    /\ violations = <<>>
    /\ stdout = NothingPrinted
    /\ exit_status = -1
    /\ ref = NoRuns

InitValidate ==
    /\ MainIdle
    /\ pc = "call"
    /\ match = <<>>
    /\ endpoint \in EndpointStrings
    /\ valid = FALSE

\* validate_endpoint(endpoint) returns
ValidateCall ==
    /\ pc = "call"
    /\ valid' = validate_endpoint(endpoint)
    /\ pc' = "returned"
    /\ UNCHANGED <<mainVarsButPc, match, endpoint>>

NextValidate == ValidateCall

SpecValidate == InitValidate /\ [][NextValidate]_vars

\* one trailing slash removed, if there is one
StripTrailingSlash(s) ==
    IF s # <<>> /\ s[Len(s)] = "/" THEN SubSeq(s, 1, Len(s) - 1) ELSE s

V1_USERS_QF ==
    API_V1 \o <<"/", "u", "s", "e", "r", "s", "?", "x", "=", "1", "#", "f", "r", "a", "g">>
\* "/api/v1/users"
V1_USERS == API_V1 \o <<"/", "u", "s", "e", "r", "s">>
\* raw "/api/v2#f?x": the fragment mark before the query mark
V2_FQ == API_V2 \o <<"#", "f", "?", "x">>

\* texts a capture group may hold
GroupTexts == {<<>>, GET, REL_USERS, V4_HEALTH, V1_USERS_QF, V2_FQ, <<"/", "?">>}

\* every tuple of group values
Matches == UNION {[1..k -> GroupTexts] : k \in 1..MaxGroups}

InitExtract ==
    /\ MainIdle
    /\ pc = "match"
    /\ match \in Matches
    /\ endpoint = <<>>
    /\ valid = FALSE

\* lines 112-116: the candidate is chosen
SelectStep ==
    /\ pc = "match"
    /\ endpoint' = SelectCandidate(match)
    /\ pc' = "selected"
    /\ UNCHANGED <<mainVarsButPc, match, valid>>

\* line 119 fails: the match yields no record
DiscardStep ==
    /\ pc = "selected"
    /\ ~KeepCandidate(endpoint)
    /\ pc' = "discarded"
    /\ UNCHANGED <<mainVarsButPc, match, endpoint, valid>>

\* lines 119-122: the candidate is normalised and appended
RecordStep ==
    /\ pc = "selected"
    /\ KeepCandidate(endpoint)
    /\ endpoint' = Normalize(endpoint)
    /\ pc' = "recorded"
    /\ UNCHANGED <<mainVarsButPc, match, valid>>

\* line 180: main() validates the recorded endpoint
ValidateStep ==
    /\ pc = "recorded"
    /\ valid' = validate_endpoint(endpoint)
    /\ pc' = "validated"
    /\ UNCHANGED <<mainVarsButPc, match, endpoint>>

NextExtract ==
    \/ SelectStep
    \/ DiscardStep
    \/ RecordStep
    \/ ValidateStep

SpecExtract == InitExtract /\ [][NextExtract]_vars

\* the groups of a match that start with a slash
SlashGroups(m) == {i \in 1..Len(m) : StartsWith(m[i], <<"/">>)}

\* the first of them
FirstSlashGroup(m) == m[CHOOSE i \in SlashGroups(m) : \A j \in SlashGroups(m) : i <= j]

\* the claimed selection: the group of a single-group match, else the first group that
\* starts with a slash, else nothing
ClaimedSelection(m) ==
    /\ Len(m) = 1 => endpoint = m[1]
    /\ (Len(m) > 1 /\ SlashGroups(m) # {}) =>
           /\ endpoint = FirstSlashGroup(m)
           /\ pc \in {"selected", "recorded", "validated"}
    /\ (Len(m) > 1 /\ SlashGroups(m) = {}) => pc \in {"selected", "discarded"}

TruncateAtFirst(s, marks) ==
    LET hits == {i \in 1..Len(s) : s[i] \in marks}
    IN  IF hits = {} THEN s
        ELSE SubSeq(s, 1, (CHOOSE i \in hits : \A j \in hits : i <= j) - 1)

\* C10: a recorded endpoint starts with "/", holds neither "?" nor "#", and is its raw
\* candidate cut at the first "?" and at the first "#", in either order; the
\* normalised string is the one that is validated.
C10_NormalizedEndpoint ==
    pc \in {"recorded", "validated"} =>
        LET raw == SelectCandidate(match)
        IN  /\ StartsWith(endpoint, <<"/">>)
            /\ "?" \notin Range(endpoint)
            /\ "#" \notin Range(endpoint)
            /\ endpoint = TruncateAtFirst(raw, {"?", "#"})
            /\ endpoint = TruncateAtFirst(TruncateAtFirst(raw, {"?"}), {"#"})
            /\ endpoint = TruncateAtFirst(TruncateAtFirst(raw, {"#"}), {"?"})
            /\ raw = V1_USERS_QF => endpoint = V1_USERS
            /\ pc = "validated" =>
                   (valid <=> validate_endpoint(TruncateAtFirst(raw, {"?", "#"})))

C10_Witness ==
    /\ pc = "validated"
    /\ Len(match) = 2
    /\ match[2] = V1_USERS_QF
    /\ endpoint = V1_USERS
    /\ valid

====
